---- MODULE Spec2Model ----
(***************************************************************************)
(* A model of sahgutils: the coordinate indexer find_indices and the       *)
(* Raster class of sahgutils/io/arraytools.py, the station file reader of  *)
(* sahgutils/io/csag.py, categorical_cmap of sahgutils/mpl_helpers.py,     *)
(* printoptions of sahgutils/io/printing.py, julian_day of                 *)
(* sahgutils/io/refet.py and point_values of sahgutils/io/trmm.py.         *)
(*                                                                         *)
(* Coordinates and cell sizes are exact fixed-point numbers counted in     *)
(* ticks.  A cell size is an even number of ticks, so that 0.5*dlat is a   *)
(* whole number of ticks and every comparison and floor() of the source is *)
(* computed exactly.  Numpy values carry their shape: a scalar has shape   *)
(* <<>> and a sequence of n elements has shape <<n>>, as np.asarray sees   *)
(* them.                                                                   *)
(***************************************************************************)
EXTENDS Integers, Sequences, FiniteSets, TLC

VARIABLES
    pc,     \* "start": inputs drawn, nothing called; "ready": a Raster exists; "done": the call returned or raised
    fn,     \* the function or method that is called
    args,   \* its arguments
    self,   \* the Raster a method is bound to, None where there is none
    ret,    \* the returned value, None before the return
    exc,    \* the exception raised, "none" when there is none
    env     \* what lives outside the objects: module globals, files and the reads made of them, None where the call uses none

vars == <<pc, fn, args, self, ret, exc, env>>

None == [shape |-> <<>>, none |-> TRUE]

(***************************************************************************)
(* Bounds of the model.                                                    *)
(***************************************************************************)
MaxRows == 3
MaxCols == 3
MaxLen == 2

\* the cell sizes and the origin coordinates the inputs are drawn from
CellSizes == {2, 4}
Origins == {-1, 2}

\* the sentinel of an out-of-region index and the no-data value of sample
NoData == -999

Min(a, b) == IF a < b THEN a ELSE b
Max(a, b) == IF a < b THEN b ELSE a

(***************************************************************************)
(* Numpy values: a Python scalar, and a Python list / 1-D array.           *)
(***************************************************************************)
Scalar(v) == [shape |-> <<>>, val |-> v]
List(s) == [shape |-> <<Len(s)>>, val |-> s]

(***************************************************************************)
(* find_indices, arraytools.py 11-84.                                      *)
(***************************************************************************)
\* 0.5*d of a cell size d (an even number of ticks)
Half(d) == d \div 2

\* int(floor(a/b)) for b > 0: \div rounds towards minus infinity
FloorDiv(a, b) == a \div b

\* RowOf with the last row numbered nrows instead of nrows-1
RowOfLastRowOffByOne(lat, min_lat, max_lat, dlat, nrows) ==
    IF lat < min_lat \/ max_lat < lat THEN NoData
    ELSE IF max_lat - dlat <= lat /\ lat <= max_lat THEN 0
    ELSE IF min_lat <= lat /\ lat <= min_lat + dlat THEN nrows
    ELSE FloorDiv(nrows * dlat - (lat - min_lat), dlat)

\* RowOf with the edges of the envelope counted as outside
RowOfEdgeExcluded(lat, min_lat, max_lat, dlat, nrows) ==
    IF lat <= min_lat \/ max_lat <= lat THEN NoData
    ELSE IF max_lat - dlat <= lat /\ lat <= max_lat THEN 0
    ELSE IF min_lat <= lat /\ lat <= min_lat + dlat THEN nrows - 1
    ELSE FloorDiv(nrows * dlat - (lat - min_lat), dlat)

\* RowOf with the last row tested before the first row
RowOfWrongBand(lat, min_lat, max_lat, dlat, nrows) ==
    IF lat < min_lat \/ max_lat < lat THEN NoData
    ELSE IF min_lat <= lat /\ lat <= min_lat + dlat THEN nrows - 1
    ELSE IF max_lat - dlat <= lat /\ lat <= max_lat THEN 0
    ELSE FloorDiv(nrows * dlat - (lat - min_lat), dlat)

\* RowOf with the bands of the first and the last row half a cell wider
RowOfWidened(lat, min_lat, max_lat, dlat, nrows) ==
    IF lat < min_lat \/ max_lat < lat THEN NoData
    ELSE IF max_lat - dlat - Half(dlat) <= lat /\ lat <= max_lat THEN 0
    ELSE IF min_lat <= lat /\ lat <= min_lat + dlat + Half(dlat) THEN nrows - 1
    ELSE FloorDiv(nrows * dlat - (lat - min_lat), dlat)

\* RowOf rounding to the nearest row boundary instead of flooring
RowOfRounded(lat, min_lat, max_lat, dlat, nrows) ==
    IF lat < min_lat \/ max_lat < lat THEN NoData
    ELSE IF max_lat - dlat <= lat /\ lat <= max_lat THEN 0
    ELSE IF min_lat <= lat /\ lat <= min_lat + dlat THEN nrows - 1
    ELSE FloorDiv(nrows * dlat - (lat - min_lat) + Half(dlat), dlat)

\* the body of the loop over lats (34-42) and of the scalar branch (60-68)
RowOf(lat, min_lat, max_lat, dlat, nrows) ==
    IF lat < min_lat \/ max_lat < lat THEN NoData
    ELSE IF max_lat - dlat <= lat /\ lat <= max_lat THEN 0
    ELSE IF min_lat <= lat /\ lat <= min_lat + dlat THEN nrows - 1
    ELSE LET diff == lat - min_lat
         IN  FloorDiv(nrows * dlat - diff, dlat)

\* ColOf rounding to the nearest column boundary instead of flooring
ColOfRounded(lon, min_lon, max_lon, dlon, ncols) ==
    IF lon < min_lon \/ max_lon < lon THEN NoData
    ELSE IF min_lon <= lon /\ lon <= min_lon + dlon THEN 0
    ELSE IF max_lon - dlon <= lon /\ lon <= max_lon THEN ncols - 1
    ELSE FloorDiv(lon - min_lon + Half(dlon), dlon)

\* ColOf with the edges of the envelope counted as outside
ColOfEdgeExcluded(lon, min_lon, max_lon, dlon, ncols) ==
    IF lon <= min_lon \/ max_lon <= lon THEN NoData
    ELSE IF min_lon <= lon /\ lon <= min_lon + dlon THEN 0
    ELSE IF max_lon - dlon <= lon /\ lon <= max_lon THEN ncols - 1
    ELSE FloorDiv(lon - min_lon, dlon)

\* ColOf with the band of the last column tested before that of the first
ColOfWrongBand(lon, min_lon, max_lon, dlon, ncols) ==
    IF lon < min_lon \/ max_lon < lon THEN NoData
    ELSE IF max_lon - dlon <= lon /\ lon <= max_lon THEN ncols - 1
    ELSE IF min_lon <= lon /\ lon <= min_lon + dlon THEN 0
    ELSE FloorDiv(lon - min_lon, dlon)

\* the body of the loop over lons (48-56) and of the scalar branch (72-80)
ColOf(lon, min_lon, max_lon, dlon, ncols) ==
    IF lon < min_lon \/ max_lon < lon THEN NoData
    ELSE IF min_lon <= lon /\ lon <= min_lon + dlon THEN 0
    ELSE IF max_lon - dlon <= lon /\ lon <= max_lon THEN ncols - 1
    ELSE LET diff == lon - min_lon
         IN  FloorDiv(diff, dlon)

\* find_indices returning one-element lists for a scalar pair
find_indicesAlwaysList(lats, lons, lat0, lon0, dlat, dlon, nrows, ncols) ==
    LET min_lat == lat0 - Half(dlat)
        max_lat == min_lat + nrows * dlat
        min_lon == lon0 - Half(dlon)
        max_lon == min_lon + ncols * dlon
        ls == IF lats.shape = <<>> THEN <<lats.val>> ELSE lats.val
        ns == IF lons.shape = <<>> THEN <<lons.val>> ELSE lons.val
    IN  [row_indices |-> List([i \in 1..Len(ls) |->
                            RowOf(ls[i], min_lat, max_lat, dlat, nrows)]),
         col_indices |-> List([i \in 1..Len(ns) |->
                            ColOf(ns[i], min_lon, max_lon, dlon, ncols)])]

\* find_indices whose scalar branch tests the band of the last row first
find_indicesScalarWrongBand(lats, lons, lat0, lon0, dlat, dlon, nrows, ncols) ==
    LET min_lat == lat0 - Half(dlat)
        max_lat == min_lat + nrows * dlat
        min_lon == lon0 - Half(dlon)
        max_lon == min_lon + ncols * dlon
    IN  IF lats.shape # <<>> /\ lons.shape # <<>>
        THEN [row_indices |-> List([i \in 1..Len(lats.val) |->
                                RowOf(lats.val[i], min_lat, max_lat, dlat, nrows)]),
              col_indices |-> List([i \in 1..Len(lons.val) |->
                                ColOf(lons.val[i], min_lon, max_lon, dlon, ncols)])]
        ELSE [row_indices |-> Scalar(RowOfWrongBand(lats.val, min_lat, max_lat, dlat, nrows)),
              col_indices |-> Scalar(ColOf(lons.val, min_lon, max_lon, dlon, ncols))]

find_indices(lats, lons, lat0, lon0, dlat, dlon, nrows, ncols) ==
    LET min_lat == lat0 - Half(dlat)
        max_lat == min_lat + nrows * dlat
        min_lon == lon0 - Half(dlon)
        max_lon == min_lon + ncols * dlon
    IN  IF lats.shape # <<>> /\ lons.shape # <<>>
        THEN [row_indices |-> List([i \in 1..Len(lats.val) |->
                                RowOf(lats.val[i], min_lat, max_lat, dlat, nrows)]),
              col_indices |-> List([i \in 1..Len(lons.val) |->
                                ColOf(lons.val[i], min_lon, max_lon, dlon, ncols)])]
        ELSE [row_indices |-> Scalar(RowOf(lats.val, min_lat, max_lat, dlat, nrows)),
              col_indices |-> Scalar(ColOf(lons.val, min_lon, max_lon, dlon, ncols))]

(***************************************************************************)
(* The inputs of find_indices.                                             *)
(***************************************************************************)
\* every tick from one tick outside the envelope to one tick outside it
Ticks(c0, d, n) == (c0 - Half(d) - 1)..(c0 - Half(d) + n * d + 1)

\* the points of the grid g = (lat0, lon0, dlat, dlon, nrows, ncols) one
\* input pair is drawn from
TickPoints(g) ==
    [lat : Ticks(g.lat0, g.dlat, g.nrows), lon : Ticks(g.lon0, g.dlon, g.ncols)]

\* the points sequences of two and more pairs are made of: the centre of the
\* origin cell, the same latitude outside in longitude, the same longitude
\* outside in latitude, outside on both axes, an off-centre point, the upper
\* right corner of the envelope, the band boundaries next to the first row
\* and the first column
ProbePoints(g) ==
    LET min_lat == g.lat0 - Half(g.dlat)
        max_lat == min_lat + g.nrows * g.dlat
        min_lon == g.lon0 - Half(g.dlon)
        max_lon == min_lon + g.ncols * g.dlon
    IN  {[lat |-> g.lat0, lon |-> g.lon0],
         [lat |-> g.lat0, lon |-> max_lon + 1],
         [lat |-> min_lat - 1, lon |-> g.lon0],
         [lat |-> max_lat + 1, lon |-> min_lon - 1],
         [lat |-> g.lat0 + 1, lon |-> g.lon0 + 1],
         [lat |-> max_lat, lon |-> max_lon],
         [lat |-> max_lat - g.dlat, lon |-> min_lon + g.dlon]}

PointSeqs(g, len) ==
    IF len <= 1 THEN [1..len -> TickPoints(g)] ELSE [1..len -> ProbePoints(g)]

Lats(points) == [i \in 1..Len(points) |-> points[i].lat]
Lons(points) == [i \in 1..Len(points) |-> points[i].lon]

Grids ==
    [lat0 : Origins, lon0 : Origins, dlat : CellSizes, dlon : CellSizes,
     nrows : 1..MaxRows, ncols : 1..MaxCols]

Call(lats, lons, g) ==
    [lats |-> lats, lons |-> lons, lat0 |-> g.lat0, lon0 |-> g.lon0,
     dlat |-> g.dlat, dlon |-> g.dlon, nrows |-> g.nrows, ncols |-> g.ncols]

InitFI ==
    /\ pc = "start"
    /\ fn = "find_indices"
    /\ \E g \in Grids :
          \/ \E lat \in Ticks(g.lat0, g.dlat, g.nrows),
                lon \in Ticks(g.lon0, g.dlon, g.ncols) :
                args = Call(Scalar(lat), Scalar(lon), g)
          \/ \E len \in 0..MaxLen :
                \E points \in PointSeqs(g, len) :
                   args = Call(List(Lats(points)), List(Lons(points)), g)
    /\ self = None
    /\ ret = None
    /\ exc = "none"
    /\ env = None

\* a call of find_indices on sequences: the branch of line 31
FindIndicesSeq ==
    /\ pc = "start"
    /\ fn = "find_indices"
    /\ args.lats.shape # <<>> /\ args.lons.shape # <<>>
    /\ ret' = find_indices(args.lats, args.lons, args.lat0, args.lon0,
                           args.dlat, args.dlon, args.nrows, args.ncols)
    /\ pc' = "done"
    /\ UNCHANGED <<fn, args, self, exc, env>>

\* a call of find_indices on a scalar pair: the branch of line 59
FindIndicesScalar ==
    /\ pc = "start"
    /\ fn = "find_indices"
    /\ ~(args.lats.shape # <<>> /\ args.lons.shape # <<>>)
    /\ ret' = find_indices(args.lats, args.lons, args.lat0, args.lon0,
                           args.dlat, args.dlon, args.nrows, args.ncols)
    /\ pc' = "done"
    /\ UNCHANGED <<fn, args, self, exc, env>>

NextFI == FindIndicesSeq \/ FindIndicesScalar

SpecFI == InitFI /\ [][NextFI]_vars

(***************************************************************************)
(* Properties of find_indices.  They are stated on twice the coordinates,  *)
(* so that the half cell of the envelope needs no division:                *)
(* 2*min = 2*c0 - d and 2*max = 2*c0 - d + 2*n*d.                          *)
(***************************************************************************)
FIDone == pc = "done" /\ fn = "find_indices"

\* the queried pairs and the indices returned for them, scalar or not
QLats == IF args.lats.shape = <<>> THEN <<args.lats.val>> ELSE args.lats.val
QLons == IF args.lons.shape = <<>> THEN <<args.lons.val>> ELSE args.lons.val
RRows == IF ret.row_indices.shape = <<>> THEN <<ret.row_indices.val>> ELSE ret.row_indices.val
RCols == IF ret.col_indices.shape = <<>> THEN <<ret.col_indices.val>> ELSE ret.col_indices.val
SameLengths == Len(RRows) = Len(QLats) /\ Len(RCols) = Len(QLons) /\ Len(QLats) = Len(QLons)

Min2(c0, d) == 2 * c0 - d
Max2(c0, d, n) == 2 * c0 - d + 2 * n * d
Outside(c, c0, d, n) == 2 * c < Min2(c0, d) \/ 2 * c > Max2(c0, d, n)
StrictlyInside(c, c0, d, n) == Min2(c0, d) < 2 * c /\ 2 * c < Max2(c0, d, n)

\* the reference mapping: rows increase southward, columns eastward
RefRow(lat, lat0, dlat, nrows) ==
    IF Max2(lat0, dlat, nrows) - 2 * dlat <= 2 * lat /\ 2 * lat <= Max2(lat0, dlat, nrows)
    THEN 0
    ELSE IF Min2(lat0, dlat) <= 2 * lat /\ 2 * lat <= Min2(lat0, dlat) + 2 * dlat
    THEN nrows - 1
    ELSE (2 * nrows * dlat - (2 * lat - Min2(lat0, dlat))) \div (2 * dlat)

RefCol(lon, lon0, dlon, ncols) ==
    IF Min2(lon0, dlon) <= 2 * lon /\ 2 * lon <= Min2(lon0, dlon) + 2 * dlon
    THEN 0
    ELSE IF Max2(lon0, dlon, ncols) - 2 * dlon <= 2 * lon /\ 2 * lon <= Max2(lon0, dlon, ncols)
    THEN ncols - 1
    ELSE (2 * lon - Min2(lon0, dlon)) \div (2 * dlon)

\* C1: a point strictly inside the envelope gets a row in [0, nrows) and a
\* column in [0, ncols): never -999, a negative value, nrows or ncols.
C1_InsideInRange ==
    FIDone =>
        /\ SameLengths
        /\ \A i \in 1..Len(QLats) :
              (/\ StrictlyInside(QLats[i], args.lat0, args.dlat, args.nrows)
               /\ StrictlyInside(QLons[i], args.lon0, args.dlon, args.ncols))
              => /\ RRows[i] \in 0..(args.nrows - 1)
                 /\ RCols[i] \in 0..(args.ncols - 1)

\* an off-centre point of the interior row and column of a 3 x 3 grid
C1_Witness ==
    /\ FIDone /\ args.lats.shape = <<>>
    /\ args.nrows = 3 /\ args.dlat = 4 /\ args.lats.val = args.lat0 + 5
    /\ args.ncols = 3 /\ args.dlon = 4 /\ args.lons.val = args.lon0 + 3
    /\ ret.row_indices.val = 1 /\ ret.col_indices.val = 1

\* C2: the row is -999 exactly when lat is below min_lat or above max_lat,
\* the column is -999 exactly when lon is below min_lon or above max_lon, each
\* axis on its own (a point outside on one axis keeps its valid index on the
\* other; equal latitudes get equal rows whatever their longitudes, and
\* equal longitudes equal columns), and no exception is raised.
C2_SentinelPerAxis ==
    FIDone =>
        /\ exc = "none"
        /\ SameLengths
        /\ \A i \in 1..Len(QLats) :
              LET latOut == Outside(QLats[i], args.lat0, args.dlat, args.nrows)
                  lonOut == Outside(QLons[i], args.lon0, args.dlon, args.ncols)
              IN  /\ (RRows[i] = -999) <=> latOut
                  /\ (RCols[i] = -999) <=> lonOut
                  /\ (latOut /\ ~lonOut) => RCols[i] \in 0..(args.ncols - 1)
                  /\ (lonOut /\ ~latOut) => RRows[i] \in 0..(args.nrows - 1)
        /\ \A i, j \in 1..Len(QLats) :
              /\ QLats[i] = QLats[j] => RRows[i] = RRows[j]
              /\ QLons[i] = QLons[j] => RCols[i] = RCols[j]

\* two pairs of the same latitude, the second outside in longitude only
C2_Witness ==
    /\ FIDone /\ args.lats.shape = <<2>>
    /\ args.lats.val[1] = args.lats.val[2]
    /\ ret.row_indices.val = <<args.nrows - 1, args.nrows - 1>>
    /\ ret.col_indices.val = <<0, -999>>

\* C3: inside the envelope the result is the reference mapping.
C3_ReferenceMapping ==
    FIDone =>
        /\ SameLengths
        /\ \A i \in 1..Len(QLats) :
              /\ ~Outside(QLats[i], args.lat0, args.dlat, args.nrows)
                    => RRows[i] = RefRow(QLats[i], args.lat0, args.dlat, args.nrows)
              /\ ~Outside(QLons[i], args.lon0, args.dlon, args.ncols)
                    => RCols[i] = RefCol(QLons[i], args.lon0, args.dlon, args.ncols)

\* on two rows the boundary of the two bands is in both: it is row 0; the
\* longitude is in the floor case of three columns
C3_Witness ==
    /\ FIDone /\ args.lats.shape = <<>>
    /\ args.nrows = 2 /\ 2 * args.lats.val = 2 * args.lat0 + args.dlat
    /\ args.ncols = 3 /\ args.dlon = 4 /\ args.lons.val = args.lon0 + 5
    /\ ret.row_indices.val = 0 /\ ret.col_indices.val = 1

\* C4: the centre of cell (r, c), lat = lat0 + (nrows-1-r)*dlat and
\* lon = lon0 + c*dlon, resolves to (r, c); the origin (lat0, lon0) resolves
\* to (nrows-1, 0).
C4_CentreRoundTrip ==
    FIDone =>
        /\ SameLengths
        /\ \A i \in 1..Len(QLats) :
              \A r \in 0..(args.nrows - 1), c \in 0..(args.ncols - 1) :
                  (/\ QLats[i] = args.lat0 + (args.nrows - 1 - r) * args.dlat
                   /\ QLons[i] = args.lon0 + c * args.dlon)
                  => RRows[i] = r /\ RCols[i] = c

\* the centre of the middle cell of a 3 x 3 grid
C4_Witness ==
    /\ FIDone /\ args.lats.shape = <<>>
    /\ args.nrows = 3 /\ args.ncols = 3
    /\ args.lats.val = args.lat0 + args.dlat
    /\ args.lons.val = args.lon0 + args.dlon
    /\ ret.row_indices.val = 1 /\ ret.col_indices.val = 1

\* C5: a coordinate on the outer edge of the envelope is inside: max_lat is
\* row 0, min_lat is row nrows-1, min_lon is column 0, max_lon is column
\* ncols-1, also on a grid of one row or one column.
C5_EdgeIncluded ==
    FIDone =>
        /\ SameLengths
        /\ \A i \in 1..Len(QLats) :
              /\ 2 * QLats[i] = Max2(args.lat0, args.dlat, args.nrows) => RRows[i] = 0
              /\ 2 * QLats[i] = Min2(args.lat0, args.dlat) => RRows[i] = args.nrows - 1
              /\ 2 * QLons[i] = Min2(args.lon0, args.dlon) => RCols[i] = 0
              /\ 2 * QLons[i] = Max2(args.lon0, args.dlon, args.ncols)
                    => RCols[i] = args.ncols - 1

\* the lower edge of a grid of one row and the right edge of three columns
C5_Witness ==
    /\ FIDone /\ args.lats.shape = <<>>
    /\ args.nrows = 1 /\ 2 * args.lats.val = Min2(args.lat0, args.dlat)
    /\ args.ncols = 3 /\ 2 * args.lons.val = Max2(args.lon0, args.dlon, args.ncols)
    /\ ret.row_indices.val = 0 /\ ret.col_indices.val = 2

\* C6: two scalars give two scalar indices; two sequences of length n give
\* two sequences of length n whose i-th entries are the row and the column of
\* the i-th pair.
C6_ShapeSymmetry ==
    FIDone =>
        /\ (args.lats.shape = <<>> /\ args.lons.shape = <<>>)
              => ret.row_indices.shape = <<>> /\ ret.col_indices.shape = <<>>
        /\ (args.lats.shape # <<>> /\ args.lons.shape # <<>>)
              => /\ ret.row_indices.shape = args.lats.shape
                 /\ ret.col_indices.shape = args.lons.shape
                 /\ Len(ret.row_indices.val) = Len(args.lats.val)
                 /\ Len(ret.col_indices.val) = Len(args.lons.val)
                 /\ \A i \in 1..Len(args.lats.val) :
                       /\ ret.row_indices.val[i] =
                             IF Outside(args.lats.val[i], args.lat0, args.dlat, args.nrows)
                             THEN -999
                             ELSE RefRow(args.lats.val[i], args.lat0, args.dlat, args.nrows)
                       /\ ret.col_indices.val[i] =
                             IF Outside(args.lons.val[i], args.lon0, args.dlon, args.ncols)
                             THEN -999
                             ELSE RefCol(args.lons.val[i], args.lon0, args.dlon, args.ncols)

\* a sequence of two pairs whose rows and columns differ, returned in order
C6_Witness ==
    /\ FIDone /\ args.lats.shape = <<2>> /\ ret.row_indices.shape = <<2>>
    /\ args.nrows = 3 /\ args.ncols = 3
    /\ ret.row_indices.val = <<2, 0>>
    /\ ret.col_indices.val = <<0, 2>>

(***************************************************************************)
(* Raster, arraytools.py 129-319.  The buffer of a Raster is a function    *)
(* from row (0-based) to column (0-based) to value, with the dtype of its  *)
(* elements.                                                               *)
(***************************************************************************)
DTypes == {"uint8", "float64"}

\* storing an integer v into an element of the dtype: a fixed-width unsigned
\* integer keeps v modulo 2^8 (the in-place multiply of line 316 casts the
\* product back to the array's dtype)
Cast(dtype, v) == IF dtype = "uint8" THEN v % 256 ELSE v

\* a 2-D array: val[r][c] for r in 0..rows-1 and c in 0..cols-1
\* base is None for an array that owns its memory; a view names the row and
\* the column of its first element in the array it was sliced from
Array2D(rows, cols, dtype, val) ==
    [shape |-> <<rows, cols>>, dtype |-> dtype, val |-> val, base |-> None]

\* Raster.__new__ accepting the origin 'Upper' its docstring announces
RasterAcceptsUpper(data, x0, y0, dx, dy, origin) ==
    IF origin \notin {"Lower", "Upper"}
    THEN [raised |-> "NotImplementedError", obj |-> None]
    ELSE [raised |-> "none",
          obj |-> [data |-> data.val, dtype |-> data.dtype,
                   rows |-> data.shape[1], cols |-> data.shape[2],
                   dx |-> dx, dy |-> dy, x0 |-> x0, y0 |-> y0,
                   origin |-> origin, base |-> data.base]]

\* Raster.__new__, 195-213: raised names the exception, obj the instance;
\* np.asarray(data).view(cls) of line 202 shares the memory of data
Raster(data, x0, y0, dx, dy, origin) ==
    IF origin # "Lower"
    THEN [raised |-> "NotImplementedError", obj |-> None]
    ELSE [raised |-> "none",
          obj |-> [data |-> data.val, dtype |-> data.dtype,
                   rows |-> data.shape[1], cols |-> data.shape[2],
                   dx |-> dx, dy |-> dy, x0 |-> x0, y0 |-> y0,
                   origin |-> origin, base |-> data.base]]

\* a bound of a Python slice a[start:stop] on an axis of length n
SliceBound(i, n) == IF i < 0 THEN Max(i + n, 0) ELSE Min(i, n)

\* self[min_row:max_row, min_col:max_col], 271: basic slicing, which gives a
\* view on the memory of self and copies nothing
Slice2D(r, min_row, max_row, min_col, max_col) ==
    LET r0 == SliceBound(min_row, r.rows)
        r1 == SliceBound(max_row, r.rows)
        c0 == SliceBound(min_col, r.cols)
        c1 == SliceBound(max_col, r.cols)
        nr == Max(r1 - r0, 0)
        nc == Max(c1 - c0, 0)
    IN  [Array2D(nr, nc, r.dtype,
                 [i \in 0..(nr - 1) |-> [j \in 0..(nc - 1) |-> r.data[r0 + i][c0 + j]]])
            EXCEPT !.base = [row |-> r0, col |-> c0]]

\* Raster.subset placing the new origin at the centre of row min_row
subsetY0FromMinRow(r, min_x, min_y, max_x, max_y) ==
    LET idx == find_indices(List(<<max_y, min_y>>), List(<<min_x, max_x>>),
                            r.y0, r.x0, r.dy, r.dx, r.rows, r.cols)
        min_row == idx.row_indices.val[1]
        max_row == idx.row_indices.val[2]
        min_col == idx.col_indices.val[1]
        max_col == idx.col_indices.val[2]
    IN  Raster(Slice2D(r, min_row, max_row, min_col, max_col),
               r.x0 + min_col * r.dx, r.y0 + (r.rows - 1 - min_row) * r.dy,
               r.dx, r.dy, r.origin)

\* Raster.subset slicing up to and including max_row and max_col
subsetInclusive(r, min_x, min_y, max_x, max_y) ==
    LET idx == find_indices(List(<<max_y, min_y>>), List(<<min_x, max_x>>),
                            r.y0, r.x0, r.dy, r.dx, r.rows, r.cols)
        min_row == idx.row_indices.val[1]
        max_row == idx.row_indices.val[2]
        min_col == idx.col_indices.val[1]
        max_col == idx.col_indices.val[2]
    IN  Raster(Slice2D(r, min_row, max_row + 1, min_col, max_col + 1),
               r.x0 + min_col * r.dx, r.y0 + (r.rows - 1 - max_row) * r.dy,
               r.dx, r.dy, r.origin)

\* Raster.subset, 230-278
subset(r, min_x, min_y, max_x, max_y) ==
    LET Y == List(<<max_y, min_y>>)
        X == List(<<min_x, max_x>>)
        idx == find_indices(Y, X, r.y0, r.x0, r.dy, r.dx, r.rows, r.cols)
        min_row == idx.row_indices.val[1]
        max_row == idx.row_indices.val[2]
        min_col == idx.col_indices.val[1]
        max_col == idx.col_indices.val[2]
        new_x0 == r.x0 + min_col * r.dx
        new_y0 == r.y0 + (r.rows - 1 - max_row) * r.dy
    IN  Raster(Slice2D(r, min_row, max_row, min_col, max_col),
               new_x0, new_y0, r.dx, r.dy, r.origin)

\* Raster.sample handing x to find_indices as the latitudes and y as the
\* longitudes
sampleSwappedXY(r, x, y) ==
    LET idx == find_indices(x, y, r.y0, r.x0, r.dy, r.dx, r.rows, r.cols)
        row_indices == idx.row_indices.val
        col_indices == idx.col_indices.val
    IN  [shape |-> <<Len(x.val)>>, dtype |-> r.dtype,
         val |-> [i \in 1..Len(x.val) |->
                    IF row_indices[i] # NoData /\ col_indices[i] # NoData
                    THEN r.data[row_indices[i]][col_indices[i]]
                    ELSE Cast(r.dtype, 1 * NoData)]]

\* Raster.sample, 280-319
sample(r, x, y) ==
    LET idx == find_indices(y, x, r.y0, r.x0, r.dy, r.dx, r.rows, r.cols)
        row_indices == idx.row_indices.val
        col_indices == idx.col_indices.val
        mask == [i \in 1..Len(row_indices) |->
                    row_indices[i] # NoData /\ col_indices[i] # NoData]
        nodata == Cast(r.dtype, 1 * NoData)
    IN  [shape |-> <<Len(x.val)>>, dtype |-> r.dtype,
         val |-> [i \in 1..Len(x.val) |->
                    IF mask[i] THEN r.data[row_indices[i]][col_indices[i]]
                    ELSE nodata]]

\* Raster.subset cropping self in place
selfAfterSubsetCropped(r, min_x, min_y, max_x, max_y) ==
    subset(r, min_x, min_y, max_x, max_y).obj

\* self when Raster.subset returns: lines 256-278 assign to locals only
selfAfterSubset(r, min_x, min_y, max_x, max_y) == r

\* self when Raster.sample returns: lines 301-319 assign to locals only, and
\* the stores of lines 316-317 go to result, a new array of np.ones
selfAfterSample(r, x, y) == r

(***************************************************************************)
(* The inputs of the Raster operations.                                    *)
(***************************************************************************)
OriginNames == {"Lower", "Upper", "lower"}

\* buffers whose cells all hold different values
CellValue(r, c, cols) == 20 + r * cols + c

Buffers ==
    {Array2D(rows, cols, dtype,
             [r \in 0..(rows - 1) |-> [c \in 0..(cols - 1) |-> CellValue(r, c, cols)]]) :
        rows \in 1..MaxRows, cols \in 1..MaxCols, dtype \in DTypes}

\* the grid of a Raster, as sample and subset hand it to find_indices
GridOf(r) ==
    [lat0 |-> r.y0, lon0 |-> r.x0, dlat |-> r.dy, dlon |-> r.dx,
     nrows |-> r.rows, ncols |-> r.cols]

\* the centres of the four corner cells: top left, top right, bottom left,
\* bottom right
CornerCentres(r) ==
    <<[lat |-> r.y0 + (r.rows - 1) * r.dy, lon |-> r.x0],
      [lat |-> r.y0 + (r.rows - 1) * r.dy, lon |-> r.x0 + (r.cols - 1) * r.dx],
      [lat |-> r.y0, lon |-> r.x0],
      [lat |-> r.y0, lon |-> r.x0 + (r.cols - 1) * r.dx]>>

Init ==
    /\ pc = "start"
    /\ fn = "Raster"
    /\ \E data \in Buffers, x0 \in Origins, y0 \in Origins,
          dx \in CellSizes, dy \in CellSizes, origin \in OriginNames :
          args = [data |-> data, x0 |-> x0, y0 |-> y0, dx |-> dx, dy |-> dy,
                  origin |-> origin]
    /\ self = None
    /\ ret = None
    /\ exc = "none"
    /\ env = None

\* Raster(data, x0, y0, dx, dy, origin)
RasterNew ==
    /\ pc = "start"
    /\ fn = "Raster"
    /\ LET made == Raster(args.data, args.x0, args.y0, args.dx, args.dy, args.origin)
       IN  /\ exc' = made.raised
           /\ self' = made.obj
           /\ pc' = IF made.raised = "none" THEN "ready" ELSE "done"
    /\ UNCHANGED <<fn, args, ret, env>>

\* self.sample(x, y) on the longitudes and the latitudes of points
SampleCall(points) ==
    /\ pc = "ready"
    /\ fn' = "sample"
    /\ args' = [x |-> List(Lons(points)), y |-> List(Lats(points))]
    /\ ret' = sample(self, List(Lons(points)), List(Lats(points)))
    /\ self' = selfAfterSample(self, List(Lons(points)), List(Lats(points)))
    /\ pc' = "done"
    /\ UNCHANGED <<exc, env>>

\* self.subset(min_x, min_y, max_x, max_y)
SubsetCall(min_x, min_y, max_x, max_y) ==
    /\ pc = "ready"
    /\ fn' = "subset"
    /\ args' = [min_x |-> min_x, min_y |-> min_y, max_x |-> max_x, max_y |-> max_y]
    /\ LET made == subset(self, min_x, min_y, max_x, max_y)
       IN  /\ ret' = made.obj
           /\ exc' = made.raised
    /\ self' = selfAfterSubset(self, min_x, min_y, max_x, max_y)
    /\ pc' = "done"
    /\ UNCHANGED env

\* self.sample(x, y) on two sequences of the same length
Sample ==
    /\ pc = "ready"
    /\ \E points \in
            UNION {PointSeqs(GridOf(self), len) : len \in 1..MaxLen}
            \cup {CornerCentres(self)} :
          SampleCall(points)

\* self.subset(min_x, min_y, max_x, max_y) with min_x <= max_x, min_y <= max_y
Subset ==
    /\ pc = "ready"
    /\ \E min_x \in Ticks(self.x0, self.dx, self.cols),
          max_x \in Ticks(self.x0, self.dx, self.cols),
          min_y \in Ticks(self.y0, self.dy, self.rows),
          max_y \in Ticks(self.y0, self.dy, self.rows) :
          /\ min_x <= max_x /\ min_y <= max_y
          /\ SubsetCall(min_x, min_y, max_x, max_y)

Next == RasterNew \/ Sample \/ Subset

Spec == Init /\ [][Next]_vars

(***************************************************************************)
(* Calls one after the other on one Raster, and stores into the result of  *)
(* subset, with the inputs drawn from the probe points of the grid.        *)
(***************************************************************************)
ProbeSeqs(g) == UNION {[1..len -> ProbePoints(g)] : len \in 1..MaxLen}

SampleAt ==
    /\ pc = "ready"
    /\ \E points \in ProbeSeqs(GridOf(self)) : SampleCall(points)

SubsetAt ==
    /\ pc = "ready"
    /\ \E lo \in ProbePoints(GridOf(self)), hi \in ProbePoints(GridOf(self)) :
          /\ lo.lon <= hi.lon /\ lo.lat <= hi.lat
          /\ SubsetCall(lo.lon, lo.lat, hi.lon, hi.lat)

\* sample or subset has returned to the caller (lines 278 and 319), who drops
\* the result and has the Raster for the next call
Return ==
    /\ pc = "done"
    /\ fn \in {"sample", "subset"}
    /\ pc' = "ready"
    /\ fn' = "return"
    /\ args' = None
    /\ ret' = None
    /\ UNCHANGED <<self, exc, env>>

NextCalls == RasterNew \/ SampleAt \/ SubsetAt \/ Return

SpecCalls == Init /\ [][NextCalls]_vars

\* the values the caller stores into the result of subset: no cell holds them
StoredValues == {0, 7}

\* the array a after a[i, j] = v
SetElement(a, i, j, v) == [a EXCEPT !.data[i][j] = Cast(a.dtype, v)]

\* the array owner after view[i, j] = v, where view was sliced from owner: a
\* view has no memory of its own, the store goes to the element of owner the
\* view starts at, plus (i, j)
StoreThrough(owner, view, i, j, v) ==
    IF view.base = None THEN owner
    ELSE SetElement(owner, view.base.row + i, view.base.col + j, v)

\* result[i, j] = v by the caller of subset
SetItem ==
    /\ pc = "done"
    /\ fn = "subset"
    /\ exc = "none"
    /\ \E i \in 0..(ret.rows - 1), j \in 0..(ret.cols - 1), v \in StoredValues :
          /\ args' = [i |-> i, j |-> j, value |-> v]
          /\ ret' = SetElement(ret, i, j, v)
          /\ self' = StoreThrough(self, ret, i, j, v)
    /\ fn' = "__setitem__"
    /\ pc' = "written"
    /\ UNCHANGED <<exc, env>>

NextView == RasterNew \/ SubsetAt \/ SetItem

SpecView == Init /\ [][NextView]_vars

(***************************************************************************)
(* Properties of Raster.                                                   *)
(***************************************************************************)
\* the exception Raster.__new__ raises for an origin it does not support
\* (line 197): the UnsupportedOriginError of the specification
UnsupportedOriginError == "NotImplementedError"

Constructed == fn = "Raster" /\ pc # "start"
SampleDone == pc = "done" /\ fn = "sample"
SubsetDone == pc = "done" /\ fn = "subset"

C8_SampleValues ==
    SampleDone =>
        /\ ret.shape = <<Len(args.x.val)>>
        /\ Len(ret.val) = Len(args.x.val)
        /\ \A i \in 1..Len(args.x.val) :
              ret.val[i] =
                 IF \/ Outside(args.y.val[i], self.y0, self.dy, self.rows)
                    \/ Outside(args.x.val[i], self.x0, self.dx, self.cols)
                 THEN -999
                 ELSE self.data[RefRow(args.y.val[i], self.y0, self.dy, self.rows)]
                               [RefCol(args.x.val[i], self.x0, self.dx, self.cols)]

\* C8 restricted to the buffers whose dtype holds -999, where it holds
C8_SampleValuesWideDType ==
    (SampleDone /\ self.dtype # "uint8") => C8_SampleValues

\* an inside and an outside point are sampled from a Raster of float cells
C8_WideDTypeWitness ==
    /\ SampleDone /\ self.dtype = "float64" /\ Len(ret.val) = 2
    /\ ret.val[1] = self.data[self.rows - 1][0] /\ ret.val[2] = -999

\* C9: sampling at the centre of cell (r, c), x = x0 + c*dx and
\* y = y0 + (rows-1-r)*dy, returns buffer[r][c]; the four corner centres give
\* the four corner values in input order.
C9_SampleAtCentres ==
    SampleDone =>
        /\ Len(ret.val) = Len(args.x.val)
        /\ \A i \in 1..Len(args.x.val) :
              \A r \in 0..(self.rows - 1), c \in 0..(self.cols - 1) :
                  (/\ args.x.val[i] = self.x0 + c * self.dx
                   /\ args.y.val[i] = self.y0 + (self.rows - 1 - r) * self.dy)
                  => ret.val[i] = self.data[r][c]
        /\ (/\ args.x.val = <<self.x0, self.x0 + (self.cols - 1) * self.dx,
                               self.x0, self.x0 + (self.cols - 1) * self.dx>>
             /\ args.y.val = <<self.y0 + (self.rows - 1) * self.dy,
                               self.y0 + (self.rows - 1) * self.dy,
                               self.y0, self.y0>>)
              => ret.val = <<self.data[0][0], self.data[0][self.cols - 1],
                             self.data[self.rows - 1][0],
                             self.data[self.rows - 1][self.cols - 1]>>

\* the four corner centres of a 2 x 3 Raster of 8-bit cells
C9_Witness ==
    /\ SampleDone /\ self.rows = 2 /\ self.cols = 3 /\ self.dtype = "uint8"
    /\ Len(args.x.val) = 4
    /\ ret.val = <<self.data[0][0], self.data[0][2], self.data[1][0], self.data[1][2]>>
    /\ Cardinality({ret.val[i] : i \in 1..4}) = 4

BoxInside ==
    /\ ~Outside(args.min_x, self.x0, self.dx, self.cols)
    /\ ~Outside(args.max_x, self.x0, self.dx, self.cols)
    /\ ~Outside(args.min_y, self.y0, self.dy, self.rows)
    /\ ~Outside(args.max_y, self.y0, self.dy, self.rows)

\* the centre of the cell (r, c) of self lies inside the box
CentreInBox(r, c) ==
    LET cx == self.x0 + c * self.dx
        cy == self.y0 + (self.rows - 1 - r) * self.dy
    IN  /\ args.min_x <= cx /\ cx <= args.max_x
        /\ args.min_y <= cy /\ cy <= args.max_y

\* the cell (r, c) of self contains a corner of the box
HoldsCorner(r, c) ==
    /\ r \in {RefRow(args.max_y, self.y0, self.dy, self.rows),
              RefRow(args.min_y, self.y0, self.dy, self.rows)}
    /\ c \in {RefCol(args.min_x, self.x0, self.dx, self.cols),
              RefCol(args.max_x, self.x0, self.dx, self.cols)}

\* the cell (r, c) of self is a cell of the result: the cells of a buffer all
\* hold different values
InResult(r, c) ==
    \E i \in DOMAIN ret.data :
       \E j \in DOMAIN ret.data[i] : ret.data[i][j] = self.data[r][c]

\* C11: subset of a box (min <= max on both axes) inside the envelope returns
\* every cell of the source whose centre lies inside the box, and the cells
\* that contain the corners of the box.
C11_SubsetCovers ==
    (SubsetDone /\ BoxInside)
    => \A r \in 0..(self.rows - 1) :
          \A c \in 0..(self.cols - 1) :
             (CentreInBox(r, c) \/ HoldsCorner(r, c)) => InResult(r, c)

\* C13: the Raster subset returns is an independent copy: a store into the
\* result leaves every element of the source buffer as it was.
C13_SubsetIndependent ==
    pc = "written"
    => \A r \in 0..(self.rows - 1) :
          \A c \in 0..(self.cols - 1) : self.data[r][c] = CellValue(r, c, self.cols)

Abs(v) == IF v < 0 THEN -v ELSE v

\* twice the edges of the bounding box read off the metadata of a Raster
Left2(r) == 2 * r.x0 - r.dx
Right2(r) == 2 * r.x0 - r.dx + 2 * r.cols * r.dx
Bottom2(r) == 2 * r.y0 - r.dy
Top2(r) == 2 * r.y0 - r.dy + 2 * r.rows * r.dy

\* C12: the bounding box read off the metadata of the result of subset,
\* [x0 - dx/2, x0 - dx/2 + cols*dx] by [y0 - dy/2, y0 - dy/2 + rows*dy], has
\* each of its four edges at most one cell size away from the edge of the
\* box asked for.
C12_EdgesWithinOneCell ==
    (SubsetDone /\ BoxInside)
    => /\ Abs(Left2(ret) - 2 * args.min_x) <= 2 * self.dx
       /\ Abs(Right2(ret) - 2 * args.max_x) <= 2 * self.dx
       /\ Abs(Bottom2(ret) - 2 * args.min_y) <= 2 * self.dy
       /\ Abs(Top2(ret) - 2 * args.max_y) <= 2 * self.dy

\* a box from inside the lower left cell to the upper right corner of a
\* 3 x 3 Raster: the right and the upper edge of the result lie one whole
\* cell inside the box
C12_Witness ==
    /\ SubsetDone /\ BoxInside /\ self.rows = 3 /\ self.cols = 3
    /\ args.min_x = self.x0 /\ args.min_y = self.y0
    /\ 2 * args.max_x = Max2(self.x0, self.dx, self.cols)
    /\ 2 * args.max_y = Max2(self.y0, self.dy, self.rows)
    /\ <<ret.rows, ret.cols>> = <<2, 2>>
    /\ 2 * args.max_x - Right2(ret) = 2 * self.dx
    /\ 2 * args.max_y - Top2(ret) = 2 * self.dy

\* C14: no call of sample or subset changes the Raster it is called on: the
\* buffer and rows, cols, x0, y0, dx, dy and origin stay, call after call,
\* what the construction made them.
C14_SelfUnchanged == [][pc # "start" => self' = self]_vars

\* a call has returned and the Raster, ready for the next call, still holds
\* the 3 x 3 buffer it was constructed with
C14_Witness ==
    /\ pc = "ready" /\ fn = "return"
    /\ <<self.rows, self.cols>> = <<3, 3>>
    /\ \A r \in 0..2 : \A c \in 0..2 : self.data[r][c] = CellValue(r, c, 3)

\* twice the distance, squared, between the i-th point sampled and the centre
\* of the cell (r, c) of self
Dist(i, r, c) ==
    LET ddx == args.x.val[i] - (self.x0 + c * self.dx)
        ddy == args.y.val[i] - (self.y0 + (self.rows - 1 - r) * self.dy)
    IN  ddx * ddx + ddy * ddy

\* the cell (r, c) is the one cell whose centre is nearest to the i-th point
UniqueNearest(i, r, c) ==
    \A r2 \in 0..(self.rows - 1) :
       \A c2 \in 0..(self.cols - 1) :
          <<r2, c2>> # <<r, c>> => Dist(i, r, c) < Dist(i, r2, c2)

\* C15: sample is a nearest-neighbour lookup: for a point inside the region
\* that has one nearest cell centre, the value returned is the value of that
\* cell.
C15_NearestNeighbour ==
    SampleDone
    => \A i \in 1..Len(args.x.val) :
          (/\ ~Outside(args.x.val[i], self.x0, self.dx, self.cols)
           /\ ~Outside(args.y.val[i], self.y0, self.dy, self.rows))
          => \A r \in 0..(self.rows - 1) :
                \A c \in 0..(self.cols - 1) :
                   UniqueNearest(i, r, c) => ret.val[i] = self.data[r][c]

\* a point off the centre of the middle cell of a 3 x 3 Raster, one tick
\* from the boundary of the middle row, gets the value of the middle cell
C15_Witness ==
    /\ SampleDone /\ Len(args.x.val) = 1
    /\ <<self.rows, self.cols>> = <<3, 3>> /\ self.dy = 4
    /\ args.x.val[1] = self.x0 + self.dx
    /\ args.y.val[1] = self.y0 + self.dy + 1
    /\ UniqueNearest(1, 1, 1)
    /\ ret.val[1] = self.data[1][1]

(***************************************************************************)
(* CSAGStationReader, sahgutils/io/csag.py.                                *)
(*                                                                         *)
(* Text is a sequence of one-character strings.  A line of the file is its *)
(* tokens, the maximal runs of non-blank characters, and whether blanks    *)
(* come before the first of them.  A number read from text is counted in   *)
(* thousandths, so that the texts "3" and "3.0" of the inputs read as the  *)
(* same number while staying different texts.                              *)
(***************************************************************************)
MaxHeaderLines == 3
MaxRecords == 2
\* the calls that read the data section of one file: no more than this
MaxReads == 2

ALTITUDE == <<"A", "L", "T", "I", "T", "U", "D", "E">>
LATITUDE == <<"L", "A", "T", "I", "T", "U", "D", "E">>
LONGITUDE == <<"L", "O", "N", "G", "I", "T", "U", "D", "E">>
CLEANING == <<"C", "L", "E", "A", "N", "I", "N", "G">>
CREATED == <<"C", "R", "E", "A", "T", "E", "D">>
START_DATE == <<"S", "T", "A", "R", "T", "_", "D", "A", "T", "E">>
END_DATE == <<"E", "N", "D", "_", "D", "A", "T", "E">>

\* the values of a header and of a record
Text(chars) == [text |-> chars]
Float(milli) == [milli |-> milli]
IntValue(n) == [int |-> n]
Date(year, month, day) == [year |-> year, month |-> month, day |-> day]
NaN == [nan |-> TRUE]

Digit(ch) ==
    CASE ch = "0" -> 0 [] ch = "1" -> 1 [] ch = "2" -> 2 [] ch = "3" -> 3
      [] ch = "4" -> 4 [] ch = "5" -> 5 [] ch = "6" -> 6 [] ch = "7" -> 7
      [] ch = "8" -> 8 [] ch = "9" -> 9

\* the number a run of decimal digits writes
RECURSIVE Decimal(_)
Decimal(chars) ==
    IF chars = <<>> THEN 0
    ELSE 10 * Decimal(SubSeq(chars, 1, Len(chars) - 1)) + Digit(chars[Len(chars)])

RECURSIVE Pow10(_)
Pow10(n) == IF n = 0 THEN 1 ELSE 10 * Pow10(n - 1)

\* int(text) of a decimal numeral with an optional sign
ParseInt(chars) ==
    IF chars[1] = "-" THEN IntValue(-Decimal(Tail(chars))) ELSE IntValue(Decimal(chars))

\* float(text) of a numeral with an optional sign and at most three digits
\* after an optional point
ParseFloat(chars) ==
    LET neg == chars[1] = "-"
        body == IF neg THEN Tail(chars) ELSE chars
        dots == {i \in 1..Len(body) : body[i] = "."}
        dot == IF dots = {} THEN Len(body) + 1 ELSE CHOOSE i \in dots : TRUE
        whole == SubSeq(body, 1, dot - 1)
        frac == SubSeq(body, dot + 1, Len(body))
        milli == 1000 * Decimal(whole) + Decimal(frac) * Pow10(3 - Len(frac))
    IN  Float(IF neg THEN -milli ELSE milli)

\* datetime.strptime(text, '%Y%m%d') of eight digits
ParseDate(chars) ==
    Date(Decimal(SubSeq(chars, 1, 4)), Decimal(SubSeq(chars, 5, 6)),
         Decimal(SubSeq(chars, 7, 8)))

\* line[0] of a line read by readline: the newline for an empty line
FirstChar(line) ==
    IF line.tokens = <<>> THEN "\n"
    ELSE IF line.indent THEN " "
    ELSE line.tokens[1][1]

\* d[key] = value
DictSet(d, key, value) ==
    [k \in DOMAIN d \cup {key} |-> IF k = key THEN value ELSE d[k]]

\* the loop body taking the second token of a line as the value
HeaderLineSecondToken(header, line) ==
    IF FirstChar(line) # "#" /\ Len(line.tokens) >= 1
    THEN DictSet(header, line.tokens[1],
                 Text(line.tokens[IF Len(line.tokens) >= 2 THEN 2 ELSE 1]))
    ELSE header

\* the body of the loop of _read_header, 40-44
HeaderLine(header, line) ==
    IF FirstChar(line) # "#"
    THEN LET items == line.tokens
         IN  IF Len(items) >= 1
             THEN DictSet(header, items[1], Text(items[Len(items)]))
             ELSE header
    ELSE header

\* the loop of _read_header over the first n lines, 38-46
RECURSIVE ReadLines(_, _)
ReadLines(lines, n) ==
    IF n = 0 THEN <<>>
    ELSE HeaderLine(ReadLines(lines, n - 1), lines[n])

\* the three conversion loops of _read_header, 50-72
ConvertHeader(header) ==
    [k \in DOMAIN header |->
        IF k \in {ALTITUDE, LATITUDE, LONGITUDE} THEN ParseFloat(header[k].text)
        ELSE IF k \in {CLEANING} THEN ParseInt(header[k].text)
        ELSE IF k \in {CREATED, START_DATE, END_DATE} THEN ParseDate(header[k].text)
        ELSE header[k]]

\* _read_header, 32-72
_read_header(file, header_rows) == ConvertHeader(ReadLines(file.lines, header_rows))

\* np.squeeze of a 1-D array, which genfromtxt applies to what it read: one
\* element gives a 0-d array
Squeeze(values) == IF Len(values) = 1 THEN Scalar(values[1]) ELSE List(values)

\* np.genfromtxt(...), 75-78: the columns DATE (text) and VAR (f8) of the
\* records after the skipped lines and the line of column names
genfromtxt(file) ==
    [DATE |-> Squeeze([i \in 1..Len(file.records) |-> Text(file.records[i].DATE)]),
     VAR |-> Squeeze([i \in 1..Len(file.records) |-> ParseFloat(file.records[i].VAR)])]

\* the mask taking zero for no data as well
MaskNegativeAndZero(a) ==
    IF a.shape = <<>>
    THEN Scalar(IF a.val.milli <= 0 THEN NaN ELSE a.val)
    ELSE List([i \in 1..Len(a.val) |-> IF a.val[i].milli <= 0 THEN NaN ELSE a.val[i]])

\* a[a < 0] = np.nan, 80
MaskNegative(a) ==
    IF a.shape = <<>>
    THEN Scalar(IF a.val.milli < 0 THEN NaN ELSE a.val)
    ELSE List([i \in 1..Len(a.val) |-> IF a.val[i].milli < 0 THEN NaN ELSE a.val[i]])

\* _read_data leaving the flag _data_read as it was
_read_dataFlagUnset(obj, file) ==
    LET table == genfromtxt(file)
    IN  [obj EXCEPT !._data = [table EXCEPT !.VAR = MaskNegative(table.VAR)]]

\* _read_data, 74-81
_read_data(obj, file) ==
    LET table == genfromtxt(file)
    IN  [obj EXCEPT !._data = [table EXCEPT !.VAR = MaskNegative(table.VAR)],
                    !._data_read = TRUE]

\* CSAGStationReader.__init__, 25-30
CSAGStationReader(filename, header_rows, file) ==
    [filename |-> filename, _header_rows |-> header_rows,
     _header |-> _read_header(file, header_rows),
     _data_read |-> FALSE, _data |-> None]

\* CSAGStationReader.header, 83-85
header(obj) == [obj |-> obj, result |-> obj._header, raised |-> "none", reads |-> 0]

\* CSAGStationReader.data, 87-92; reads is the number of times the call has
\* read the data section of the file (the genfromtxt of _read_data)
data(obj, file) ==
    LET read == IF ~obj._data_read THEN _read_data(obj, file) ELSE obj
        reads == IF ~obj._data_read THEN 1 ELSE 0
    IN  [obj |-> read, result |-> read._data.VAR, raised |-> "none", reads |-> reads]

\* CSAGStationReader.dates, 94-103: the for loop of line 100 raises TypeError
\* on a 0-d array, which cannot be iterated over
dates(obj, file) ==
    LET read == IF ~obj._data_read THEN _read_data(obj, file) ELSE obj
        reads == IF ~obj._data_read THEN 1 ELSE 0
        DATE == read._data.DATE
    IN  IF DATE.shape = <<>>
        THEN [obj |-> read, result |-> None, raised |-> "TypeError", reads |-> reads]
        ELSE [obj |-> read,
              result |-> List([i \in 1..Len(DATE.val) |-> ParseDate(DATE.val[i].text)]),
              raised |-> "none", reads |-> reads]

(***************************************************************************)
(* The station files the reader is given.                                  *)
(***************************************************************************)
Line(indent, tokens) == [indent |-> indent, tokens |-> tokens]

HeaderLines ==
    {Line(FALSE, <<<<"#">>, ALTITUDE, <<"9", ".", "0">>>>),
     Line(TRUE, <<<<"#">>, <<"x">>>>),
     Line(FALSE, <<>>),
     Line(FALSE, <<ALTITUDE, <<"1", "5", "3", ".", "0">>>>),
     Line(FALSE, <<LATITUDE, <<"-", "3", "6", ".", "5", "4">>>>),
     Line(FALSE, <<LONGITUDE, <<"2", "2", ".", "0", "5">>>>),
     Line(FALSE, <<CLEANING, <<"3">>>>),
     Line(FALSE, <<CREATED, <<"2", "0", "1", "2", "0", "6", "2", "0">>>>),
     Line(FALSE, <<START_DATE, <<"1", "9", "9", "8", "0", "3", "0", "1">>>>),
     Line(FALSE, <<END_DATE, <<"1", "9", "9", "8", "0", "3", "2", "0">>>>),
     Line(FALSE, <<<<"N", "A", "M", "E">>, <<"K">>, <<"P", "O", "L">>>>),
     Line(FALSE, <<<<"F", "O", "R", "M", "A", "T">>>>)}

\* no two lines with tokens start with the same token
DistinctKeys(lines) ==
    \A i \in 1..Len(lines) :
       \A j \in 1..Len(lines) :
          (i # j /\ lines[i].tokens # <<>> /\ lines[j].tokens # <<>>)
          => lines[i].tokens[1] # lines[j].tokens[1]

Headers ==
    {lines \in UNION {[1..n -> HeaderLines] : n \in 1..MaxHeaderLines} :
        DistinctKeys(lines)}

Record(DATE, VAR) == [DATE |-> DATE, VAR |-> VAR]

Records ==
    {Record(d, v) :
        d \in {<<"1", "9", "9", "8", "0", "3", "0", "1">>,
                <<"1", "9", "9", "8", "0", "3", "0", "2">>,
                <<"2", "0", "0", "0", "1", "2", "3", "1">>},
        v \in {<<"0", ".", "0">>, <<"4", ".", "4">>, <<"-", "9", "9", "9", ".", "0">>,
                <<"-", "3", "6", ".", "5", "4">>}}

\* the records of a file: one at least
DataSections == UNION {[1..n -> Records] : n \in 1..MaxRecords}

\* the first lines of a file (comment lines follow up to the records) and
\* its records
File(lines, records) == [lines |-> lines, records |-> records]

Files ==
    {File(lines,
          <<Record(<<"1", "9", "9", "8", "0", "3", "0", "1">>, <<"4", ".", "4">>),
            Record(<<"1", "9", "9", "8", "0", "3", "0", "2">>, <<"-", "9", "9", "9", ".", "0">>)>>) :
        lines \in Headers}
    \cup
    {File(<<Line(FALSE, <<CLEANING, <<"3">>>>)>>, records) : records \in DataSections}

InitCSAG ==
    /\ pc = "start"
    /\ fn = "CSAGStationReader"
    /\ \E file \in Files :
          /\ env = [file |-> file, reads |-> 0]
          /\ \E header_rows \in {Len(file.lines) - 1, Len(file.lines)} :
                args = [filename |-> "station.txt", header_rows |-> header_rows]
    /\ self = None
    /\ ret = None
    /\ exc = "none"

\* CSAGStationReader(filename, header_rows)
ReaderNew ==
    /\ pc = "start"
    /\ fn = "CSAGStationReader"
    /\ self' = CSAGStationReader(args.filename, args.header_rows, env.file)
    /\ pc' = "ready"
    /\ UNCHANGED <<fn, args, ret, exc, env>>

\* a call of a method without arguments on the reader
ReaderCall(name, out) ==
    /\ pc = "ready"
    /\ fn' = name
    /\ args' = None
    /\ self' = out.obj
    /\ ret' = out.result
    /\ exc' = out.raised
    /\ env' = [env EXCEPT !.reads = env.reads + out.reads]
    /\ pc' = "done"

Header == pc = "ready" /\ ReaderCall("header", header(self))

Data == pc = "ready" /\ env.reads < MaxReads /\ ReaderCall("data", data(self, env.file))

Dates == pc = "ready" /\ env.reads < MaxReads /\ ReaderCall("dates", dates(self, env.file))

\* the method has returned and the caller has the reader for the next call
ReaderReturn ==
    /\ pc = "done"
    /\ fn \in {"header", "data", "dates"}
    /\ exc = "none"
    /\ pc' = "ready"
    /\ fn' = "return"
    /\ ret' = None
    /\ UNCHANGED <<args, self, exc, env>>

\* the caller has caught the exception of the method and has the reader for
\* the next call
ReaderCatch ==
    /\ pc = "done"
    /\ fn \in {"header", "data", "dates"}
    /\ exc # "none"
    /\ pc' = "ready"
    /\ fn' = "except"
    /\ ret' = None
    /\ exc' = "none"
    /\ UNCHANGED <<args, self, env>>

NextCSAG == ReaderNew \/ Header \/ Data \/ Dates \/ ReaderReturn \/ ReaderCatch

SpecCSAG == InitCSAG /\ [][NextCSAG]_vars

(***************************************************************************)
(* Properties of CSAGStationReader.                                        *)
(***************************************************************************)
\* what the numerals and the dates of the files read as, in thousandths and
\* as year, month and day
NumberRead ==
    (<<"9", ".", "0">> :> 9000) @@ (<<"1", "5", "3", ".", "0">> :> 153000)
    @@ (<<"-", "3", "6", ".", "5", "4">> :> -36540) @@ (<<"2", "2", ".", "0", "5">> :> 22050)
    @@ (<<"3">> :> 3000) @@ (<<"0", ".", "0">> :> 0) @@ (<<"4", ".", "4">> :> 4400)
    @@ (<<"-", "9", "9", "9", ".", "0">> :> -999000)

DateRead ==
    (<<"2", "0", "1", "2", "0", "6", "2", "0">> :> Date(2012, 6, 20))
    @@ (<<"1", "9", "9", "8", "0", "3", "0", "1">> :> Date(1998, 3, 1))
    @@ (<<"1", "9", "9", "8", "0", "3", "0", "2">> :> Date(1998, 3, 2))
    @@ (<<"1", "9", "9", "8", "0", "3", "2", "0">> :> Date(1998, 3, 20))
    @@ (<<"2", "0", "0", "0", "1", "2", "3", "1">> :> Date(2000, 12, 31))

HeaderDone == pc = "done" /\ fn = "header"

\* the lines among the first header_rows that are neither blank nor start
\* with '#'
EntryLines ==
    {i \in 1..self._header_rows :
        LET line == env.file.lines[i]
        IN  /\ line.tokens # <<>>
            /\ ~(~line.indent /\ line.tokens[1][1] = "#")}

\* the value the header holds for a key whose line ends with the token last
Entry(key, last) ==
    IF key \in {ALTITUDE, LATITUDE, LONGITUDE} THEN Float(NumberRead[last])
    ELSE IF key = CLEANING THEN IntValue(NumberRead[last] \div 1000)
    ELSE IF key \in {CREATED, START_DATE, END_DATE} THEN DateRead[last]
    ELSE Text(last)

C17_DataDatesAligned ==
    (pc = "done" /\ fn \in {"data", "dates"})
    => LET records == env.file.records
       IN  /\ exc = "none"
           /\ ret.shape = <<Len(records)>>
           /\ \A i \in 1..Len(records) :
                 /\ fn = "dates" => ret.val[i] = DateRead[records[i].DATE]
                 /\ fn = "data" =>
                       ret.val[i] \in {Float(NumberRead[records[i].VAR]), NaN}

(***************************************************************************)
(* categorical_cmap, sahgutils/mpl_helpers.py.                             *)
(*                                                                         *)
(* cdict, the table of the ColorBrewer palettes, is a module global: it is *)
(* the cdict field of env.  The key '_<name>_cat<n>_data' is the pair of   *)
(* the name and n, and the palette stored under it is a list of n colours. *)
(***************************************************************************)
MinCat == 3
MaxCat == 12
MaxPalettes == 2

\* '_%s_cat%s_data' % (cmap_name, cat)
PalName(cmap_name, cat) == [name |-> cmap_name, cat |-> cat]

\* _search_key trying the numbers of categories from 3 upwards
RECURSIVE _search_keyAscending(_, _, _)
_search_keyAscending(cdict, cmap_name, cat) ==
    LET up == MinCat + MaxCat - cat
    IN  IF PalName(cmap_name, up) \in DOMAIN cdict \/ cat = MinCat
        THEN PalName(cmap_name, up)
        ELSE _search_keyAscending(cdict, cmap_name, cat - 1)

\* _search_key, 10-20, from cat downwards: the first key found in cdict, and
\* the key of the last number tried when none is found
RECURSIVE _search_key(_, _, _)
_search_key(cdict, cmap_name, cat) ==
    IF PalName(cmap_name, cat) \in DOMAIN cdict \/ cat = MinCat
    THEN PalName(cmap_name, cat)
    ELSE _search_key(cdict, cmap_name, cat - 1)

\* list.reverse()
Reverse(list) == [i \in 1..Len(list) |-> list[Len(list) + 1 - i]]

\* ListedColormap(clist)
ListedColormap(clist) == [colors |-> clist, N |-> Len(clist)]

\* categorical_cmap, 22-68: the table when the call ends, the colormap
\* returned, the exception raised
categorical_cmap(cdict, cmap_name, num_cat, reverse) ==
    LET asked == PalName(cmap_name, num_cat.val)
        pal_name == IF num_cat # None
                    THEN IF asked \notin DOMAIN cdict
                         THEN _search_key(cdict, cmap_name, MaxCat)
                         ELSE asked
                    ELSE _search_key(cdict, cmap_name, MaxCat)
    IN  IF pal_name \notin DOMAIN cdict
        THEN [cdict |-> cdict, result |-> None, raised |-> "KeyError"]
        ELSE LET clist == IF reverse = TRUE THEN Reverse(cdict[pal_name])
                          ELSE cdict[pal_name]
             IN  [cdict |-> [cdict EXCEPT ![pal_name] = clist],
                  result |-> ListedColormap(clist),
                  raised |-> "none"]

\* the i-th colour of the palette of n categories of a name
Colour(cmap_name, n, i) == [name |-> cmap_name, cat |-> n, i |-> i]

Palette(cmap_name, n) == [i \in 1..n |-> Colour(cmap_name, n, i)]

\* the tables: up to MaxPalettes palettes of 'Purples', of any numbers of
\* categories, one palette of 'RdBu' and none of 'Greys'
Tables ==
    {[key \in {PalName("Purples", n) : n \in cats} \cup {PalName("RdBu", 4)} |->
         Palette(key.name, key.cat)] :
        cats \in {c \in SUBSET (MinCat..MaxCat) : Cardinality(c) \in 1..MaxPalettes}}

InitCmap ==
    /\ pc = "ready"
    /\ fn = "import"
    /\ args = None
    /\ self = None
    /\ ret = None
    /\ exc = "none"
    /\ \E cdict \in Tables : env = [cdict |-> cdict]

\* categorical_cmap(cmap_name, num_cat, reverse)
CategoricalCmap ==
    /\ pc = "ready"
    /\ \E cmap_name \in {"Purples", "RdBu", "Greys"},
          num_cat \in {None} \cup {Scalar(n) : n \in 1..(MaxCat + 1)},
          reverse \in BOOLEAN :
          /\ fn' = "categorical_cmap"
          /\ args' = [cmap_name |-> cmap_name, num_cat |-> num_cat, reverse |-> reverse]
          /\ LET out == categorical_cmap(env.cdict, cmap_name, num_cat, reverse)
             IN  /\ env' = [env EXCEPT !.cdict = out.cdict]
                 /\ ret' = out.result
                 /\ exc' = out.raised
    /\ pc' = "done"
    /\ UNCHANGED self

\* the colormap is with the caller, who is ready for the next call
CmapReturn ==
    /\ pc = "done"
    /\ fn = "categorical_cmap"
    /\ exc = "none"
    /\ pc' = "ready"
    /\ fn' = "return"
    /\ args' = None
    /\ ret' = None
    /\ UNCHANGED <<self, exc, env>>

NextCmap == CategoricalCmap \/ CmapReturn

SpecCmap == InitCmap /\ [][NextCmap]_vars

(***************************************************************************)
(* Properties of categorical_cmap.                                         *)
(***************************************************************************)
CmapDone == pc = "done" /\ fn = "categorical_cmap"

\* the numbers of categories cdict has a palette of the name for
Cats(cmap_name) ==
    {n \in MinCat..MaxCat : PalName(cmap_name, n) \in DOMAIN env.cdict}

Largest(cats) == CHOOSE n \in cats : \A m \in cats : m <= n

\* the colormap returned is made of the n colours of the palette of n
\* categories of the name asked for
IsPalette(n) ==
    /\ exc = "none"
    /\ ret.N = n
    /\ Len(ret.colors) = n
    /\ {ret.colors[i] : i \in 1..n} = {Colour(args.cmap_name, n, i) : i \in 1..n}

\* C18: where the name has palettes, categorical_cmap returns the palette
\* of exactly num_cat categories when there is one, and the palette of the
\* largest number of categories the name has, among 12 down to 3, when
\* num_cat is not given or is larger than that number.
C18_PaletteChosen ==
    (CmapDone /\ Cats(args.cmap_name) # {})
    => LET cats == Cats(args.cmap_name)
       IN  /\ (args.num_cat # None /\ args.num_cat.val \in cats)
                 => IsPalette(args.num_cat.val)
           /\ (args.num_cat = None \/ args.num_cat.val > Largest(cats))
                 => IsPalette(Largest(cats))

\* 'Purples' has palettes of 3 and of 5 categories: 7 are asked for and the
\* palette of 5 is returned
C18_Witness ==
    /\ CmapDone /\ args.cmap_name = "Purples" /\ Cats("Purples") = {3, 5}
    /\ args.num_cat = Scalar(7)
    /\ ret.N = 5

(***************************************************************************)
(* printoptions, sahgutils/io/printing.py: a generator that                *)
(* contextlib.contextmanager turns into a context manager.  The global     *)
(* print options of Numpy and FloatFormat.__call__ are fields of env, the  *)
(* locals of the generator are fields of self.                             *)
(***************************************************************************)
\* FloatFormat.__call__ as Numpy defines it, and the function of line 20 put
\* in its place, which calls origcall with its own strip_zeros
NumpyCall == [wrapper |-> FALSE]
WrapperCall(strip_zeros, origcall) ==
    [wrapper |-> TRUE, strip_zeros |-> strip_zeros, origcall |-> origcall]

\* np.set_printoptions(**kwargs): the options given are set, the others stay
set_printoptions(options, kwargs) ==
    [k \in DOMAIN options |-> IF kwargs[k] # None THEN kwargs[k].val ELSE options[k]]

\* np.set_printoptions(**original), where original holds every option
restore_printoptions(options, original) == [k \in DOMAIN options |-> original[k]]

InitPrint ==
    /\ pc = "start"
    /\ fn = "printoptions"
    /\ \E strip_zeros \in BOOLEAN,
          precision \in {None, Scalar(3), Scalar(8)},
          suppress \in {None, Scalar(TRUE)} :
          args = [strip_zeros |-> strip_zeros,
                  kwargs |-> [precision |-> precision, suppress |-> suppress]]
    /\ \E precision \in {4, 8}, suppress \in BOOLEAN,
          call \in {NumpyCall, WrapperCall(TRUE, NumpyCall)} :
          env = [options |-> [precision |-> precision, suppress |-> suppress],
                 float_call |-> call]
    /\ self = None
    /\ ret = None
    /\ exc = "none"

\* entering the with statement runs the generator up to its yield, 19-25
Enter ==
    /\ pc = "start"
    /\ fn = "printoptions"
    /\ self' = [origcall |-> env.float_call, original |-> env.options]
    /\ env' = [options |-> set_printoptions(env.options, args.kwargs),
               float_call |-> WrapperCall(args.strip_zeros, env.float_call)]
    /\ pc' = "body"
    /\ UNCHANGED <<fn, args, ret, exc>>

\* the body of the with statement sets a print option itself
BodySetsOptions ==
    /\ pc = "body"
    /\ env.options.precision # 6
    /\ env' = [env EXCEPT !.options.precision = 6]
    /\ UNCHANGED <<pc, fn, args, self, ret, exc>>

\* the body ends normally: the generator is resumed after its yield, 26-27
BodyReturns ==
    /\ pc = "body"
    /\ env' = [options |-> restore_printoptions(env.options, self.original),
               float_call |-> self.origcall]
    /\ pc' = "left"
    /\ UNCHANGED <<fn, args, self, ret, exc>>

\* the body raises: the exception is thrown into the generator at its
\* yield, line 25, which no try statement encloses, so the generator ends
\* there and the exception leaves the with statement
BodyRaises ==
    /\ pc = "body"
    /\ exc' = "Exception"
    /\ pc' = "left"
    /\ UNCHANGED <<fn, args, self, ret, env>>

NextPrint == Enter \/ BodySetsOptions \/ BodyReturns \/ BodyRaises

SpecPrint == InitPrint /\ [][NextPrint]_vars

\* C19: once the with block of printoptions has been left, by the end of
\* its body or by an exception, the print options of Numpy and
\* FloatFormat.__call__ are what they were when the block was entered
\* (original and origcall are taken at lines 23 and 19, before anything is
\* changed).
C19_OptionsRestored ==
    pc = "left"
    => /\ env.options = self.original
       /\ env.float_call = self.origcall

(***************************************************************************)
(* julian_day, sahgutils/io/refet.py 73-93, on arrays of one date.         *)
(***************************************************************************)
\* the day number of one date: np.floor((275/9.0)*month - 30 + day) is the
\* floor of (275*month - 270 + 9*day)/9; leapyear is the False of line 89
JulianDayOf(day, month, year) ==
    LET J0 == FloorDiv(275 * month - 270 + 9 * day, 9)
        J1 == J0 - 2
        J2 == IF month < 3 THEN J1 + 2 ELSE J1
        leapyear == FALSE
    IN  IF leapyear /\ month > 2 THEN J2 + 1 ELSE J2

\* julian_day, 73-93
julian_day(day, month, year) ==
    List([i \in 1..Len(day.val) |-> JulianDayOf(day.val[i], month.val[i], year.val[i])])

\* the calendar the dates are drawn from
IsLeap(year) == (year % 4 = 0 /\ year % 100 # 0) \/ year % 400 = 0

DaysIn(month, year) ==
    IF month = 2 THEN (IF IsLeap(year) THEN 29 ELSE 28)
    ELSE IF month \in {4, 6, 9, 11} THEN 30
    ELSE 31

Years == {1900, 2000, 2006, 2008}

InitJulian ==
    /\ pc = "start"
    /\ fn = "julian_day"
    /\ \E year \in Years, month \in 1..12 :
          \E day \in 1..DaysIn(month, year) :
             args = [day |-> List(<<day>>), month |-> List(<<month>>),
                     year |-> List(<<year>>)]
    /\ self = None
    /\ ret = None
    /\ exc = "none"
    /\ env = None

\* julian_day(day, month, year)
JulianDay ==
    /\ pc = "start"
    /\ fn = "julian_day"
    /\ ret' = julian_day(args.day, args.month, args.year)
    /\ pc' = "done"
    /\ UNCHANGED <<fn, args, self, exc, env>>

NextJulian == JulianDay

SpecJulian == InitJulian /\ [][NextJulian]_vars

\* the number of the day within its year: the days of the months before,
\* and the day of the month
RECURSIVE DaysBefore(_, _)
DaysBefore(month, year) ==
    IF month = 1 THEN 0
    ELSE DaysBefore(month - 1, year) + DaysIn(month - 1, year)

DayOfYear(day, month, year) == DaysBefore(month, year) + day

\* C20: julian_day returns the number of the day within its year for every
\* date of the calendar: 1 for 1 January, 274 for 1 October 2006, and in a
\* leap year 61 for 1 March and 366 for 31 December.
C20_DayOfYear ==
    (pc = "done" /\ fn = "julian_day")
    => /\ Len(ret.val) = Len(args.day.val)
       /\ \A i \in 1..Len(args.day.val) :
             ret.val[i] = DayOfYear(args.day.val[i], args.month.val[i], args.year.val[i])

(***************************************************************************)
(* TRMM3B42RTFile.point_values, sahgutils/io/trmm.py.                      *)
(*                                                                         *)
(* One tick is 0.125 degrees: the grid of 480 x 1440 boxes of 0.25 degrees *)
(* has the centre of its lower left box at (-59.875, 0.125), that is at    *)
(* (-479, 1) ticks, and boxes of 2 ticks.                                  *)
(***************************************************************************)
\* self.info, 47-53
TRMMInfo ==
    [cols |-> 1440, rows |-> 480, ll_lon |-> 1, ll_lat |-> -479,
     dlon |-> 2, dlat |-> 2, grid_size |-> 2]

\* TRMM3B42RTFile.__init__, 45-53
TRMM3B42RTFile(file_name) == [fname |-> file_name, info |-> TRMMInfo]

\* the rainfall self.precip() holds for the box (r, c): the files drawn give
\* every box a different rainfall
PrecipAt(info, r, c) == r * info.cols + c

\* an integer index i on an axis of length n: in bounds from -n to n-1, a
\* negative index counting from the end of the axis
InBounds(i, n) == -n <= i /\ i < n
FromEnd(i, n) == IF i < 0 THEN i + n ELSE i

\* a[mask] for the mask (row_indices != -999) & (col_indices != -999), 123-126
RECURSIVE Masked(_, _, _)
Masked(a, row_indices, col_indices) ==
    IF a = <<>> THEN <<>>
    ELSE LET rest == Masked(Tail(a), Tail(row_indices), Tail(col_indices))
         IN  IF Head(row_indices) # NoData /\ Head(col_indices) # NoData
             THEN <<Head(a)>> \o rest
             ELSE rest

\* TRMM3B42RTFile.point_values, 103-136
point_values(obj, lats, lons) ==
    LET ncols == obj.info.cols
        nrows == obj.info.rows
        lon0 == obj.info.ll_lon
        lat0 == obj.info.ll_lat
        dlon == obj.info.dlon
        dlat == obj.info.dlat
        out == find_indices(lats, lons, lat0, lon0, dlat, dlon, nrows, ncols)
        row_indices == out.row_indices
        col_indices == out.col_indices
    IN  IF row_indices.shape # <<>> /\ col_indices.shape # <<>>
        THEN LET rindices == Masked(row_indices.val, row_indices.val, col_indices.val)
                 cindices == Masked(col_indices.val, row_indices.val, col_indices.val)
             IN  [result |-> List([i \in 1..Len(rindices) |->
                                     PrecipAt(obj.info, rindices[i], cindices[i])]),
                  raised |-> "none"]
        ELSE LET rindices == row_indices.val
                 cindices == col_indices.val
             IN  IF InBounds(rindices, nrows) /\ InBounds(cindices, ncols)
                 THEN [result |-> Scalar(PrecipAt(obj.info, FromEnd(rindices, nrows),
                                                  FromEnd(cindices, ncols))),
                       raised |-> "none"]
                 ELSE [result |-> None, raised |-> "IndexError"]

\* the latitudes and longitudes asked for, in ticks: the edges of the grid,
\* one tick inside and outside them, and coordinates well inside
TRMMLats == {-481, -480, -479, -478, 0, 1, 478, 479, 480, 481}
TRMMLons == {-1, 0, 1, 2, 3, 883, 2878, 2879, 2880, 2881}

\* the points sequences are made of: two inside, one outside in longitude,
\* one outside in latitude, one outside in both
TRMMPoints ==
    {[lat |-> 0, lon |-> 1], [lat |-> 479, lon |-> 2879], [lat |-> 0, lon |-> -1],
     [lat |-> 481, lon |-> 1], [lat |-> -481, lon |-> 2881]}

InitTRMM ==
    /\ pc = "ready"
    /\ fn = "TRMM3B42RTFile"
    /\ args = [file_name |-> "3B42RT.bin"]
    /\ self = TRMM3B42RTFile("3B42RT.bin")
    /\ ret = None
    /\ exc = "none"
    /\ env = None

\* self.point_values(lats, lons) on a scalar pair or on two sequences of the
\* same length
PointValues ==
    /\ pc = "ready"
    /\ \E lats \in {Scalar(lat) : lat \in TRMMLats}
                   \cup {List(Lats(points)) :
                            points \in UNION {[1..n -> TRMMPoints] : n \in 1..MaxLen}},
          lons \in {Scalar(lon) : lon \in TRMMLons}
                   \cup {List(Lons(points)) :
                            points \in UNION {[1..n -> TRMMPoints] : n \in 1..MaxLen}} :
          /\ lats.shape = lons.shape
          /\ fn' = "point_values"
          /\ args' = [lats |-> lats, lons |-> lons]
          /\ LET out == point_values(self, lats, lons)
             IN  /\ ret' = out.result
                 /\ exc' = out.raised
    /\ pc' = "done"
    /\ UNCHANGED <<self, env>>

NextTRMM == PointValues

SpecTRMM == InitTRMM /\ [][NextTRMM]_vars

\* the box (r, c) of the grid contains the point (lat, lon), edges included
BoxContains(info, r, c, lat, lon) ==
    LET top == Max2(info.ll_lat, info.dlat, info.rows) - 2 * r * info.dlat
        left == Min2(info.ll_lon, info.dlon) + 2 * c * info.dlon
    IN  /\ 0 <= r /\ r < info.rows /\ 0 <= c /\ c < info.cols
        /\ top - 2 * info.dlat <= 2 * lat /\ 2 * lat <= top
        /\ left <= 2 * lon /\ 2 * lon <= left + 2 * info.dlon

\* the values point_values returned and the points it was asked for
PVValues == IF ret.shape = <<>> THEN <<ret.val>> ELSE ret.val
PVLats == IF args.lats.shape = <<>> THEN <<args.lats.val>> ELSE args.lats.val
PVLons == IF args.lons.shape = <<>> THEN <<args.lons.val>> ELSE args.lons.val

\* C21: every value point_values returns, for scalar or sequence input, is
\* the rainfall of a box that contains a location asked for: no value comes
\* from another box, also when a location lies outside the grid and its row
\* or column is -999.
C21_OnlyContainingBox ==
    (pc = "done" /\ fn = "point_values" /\ exc = "none")
    => \A k \in 1..Len(PVValues) :
          \E i \in 1..Len(PVLats) :
             \E r \in 0..(self.info.rows - 1) :
                \E c \in {PVValues[k] - r * self.info.cols} :
                   /\ BoxContains(self.info, r, c, PVLats[i], PVLons[i])
                   /\ PrecipAt(self.info, r, c) = PVValues[k]

(***************************************************************************)
(* The bands of find_indices at the boundaries between cells, on twice the *)
(* coordinates.                                                            *)
(***************************************************************************)
\* C22: a coordinate on the boundary between the first band and its
\* neighbour goes to the band tested first: lat = max_lat - dlat is row 0 and
\* lon = min_lon + dlon is column 0, also on a grid of two rows or two
\* columns where the boundary is shared by the first and the last band; with
\* three or more rows and columns lat = min_lat + dlat is row nrows-1 and
\* lon = max_lon - dlon is column ncols-1.
C22_TieBreak ==
    FIDone =>
        /\ SameLengths
        /\ \A i \in 1..Len(QLats) :
              /\ 2 * QLats[i] = Max2(args.lat0, args.dlat, args.nrows) - 2 * args.dlat
                    => RRows[i] = 0
              /\ 2 * QLons[i] = Min2(args.lon0, args.dlon) + 2 * args.dlon
                    => RCols[i] = 0
              /\ (args.nrows = 2 /\ 2 * QLats[i] = Min2(args.lat0, args.dlat) + 2 * args.dlat)
                    => RRows[i] = 0
              /\ (args.ncols = 2
                     /\ 2 * QLons[i] = Max2(args.lon0, args.dlon, args.ncols) - 2 * args.dlon)
                    => RCols[i] = 0
              /\ (args.nrows >= 3 /\ 2 * QLats[i] = Min2(args.lat0, args.dlat) + 2 * args.dlat)
                    => RRows[i] = args.nrows - 1
              /\ (args.ncols >= 3
                     /\ 2 * QLons[i] = Max2(args.lon0, args.dlon, args.ncols) - 2 * args.dlon)
                    => RCols[i] = args.ncols - 1

\* the boundary shared by the two columns of a grid is column 0, the
\* boundary above the last of three rows is row 2
C22_Witness ==
    /\ FIDone /\ args.lats.shape = <<>>
    /\ args.ncols = 2 /\ args.nrows = 3
    /\ 2 * args.lons.val = Min2(args.lon0, args.dlon) + 2 * args.dlon
    /\ 2 * args.lons.val = Max2(args.lon0, args.dlon, args.ncols) - 2 * args.dlon
    /\ 2 * args.lats.val = Min2(args.lat0, args.dlat) + 2 * args.dlat
    /\ ret.col_indices.val = 0 /\ ret.row_indices.val = 2

\* C23, as claimed: the first and the last row and column catch the
\* coordinates up to one cell and a half from the edge of the envelope, half
\* a cell more than the one cell of an interior band (grids of three and
\* more rows and columns, where the widened bands do not meet).
C23_WidenedCatchment ==
    FIDone =>
        \A i \in 1..Len(QLats) :
           /\ (args.nrows >= 3 /\ 2 * QLats[i] <= Max2(args.lat0, args.dlat, args.nrows)
                  /\ Max2(args.lat0, args.dlat, args.nrows) - 3 * args.dlat <= 2 * QLats[i])
                 => RRows[i] = 0
           /\ (args.nrows >= 3 /\ Min2(args.lat0, args.dlat) <= 2 * QLats[i]
                  /\ 2 * QLats[i] <= Min2(args.lat0, args.dlat) + 3 * args.dlat)
                 => RRows[i] = args.nrows - 1
           /\ (args.ncols >= 3 /\ Min2(args.lon0, args.dlon) <= 2 * QLons[i]
                  /\ 2 * QLons[i] <= Min2(args.lon0, args.dlon) + 3 * args.dlon)
                 => RCols[i] = 0
           /\ (args.ncols >= 3 /\ 2 * QLons[i] <= Max2(args.lon0, args.dlon, args.ncols)
                  /\ Max2(args.lon0, args.dlon, args.ncols) - 3 * args.dlon <= 2 * QLons[i])
                 => RCols[i] = args.ncols - 1

\* C23, amended: the bands of the first and the last row and column are
\* exactly one cell wide, as wide as an interior band: row 0 is returned for
\* the latitudes from max_lat - dlat to max_lat and for no other, column 0
\* for the longitudes from min_lon to min_lon + dlon and for no other, the
\* last row and column for the coordinates within one cell of the opposite
\* edge that the first band has not taken; both boundaries of an edge band
\* belong to it.
C23_EdgeBandsOneCell ==
    FIDone =>
        /\ SameLengths
        /\ \A i \in 1..Len(QLats) :
              /\ RRows[i] = 0
                    <=> /\ Max2(args.lat0, args.dlat, args.nrows) - 2 * args.dlat <= 2 * QLats[i]
                        /\ 2 * QLats[i] <= Max2(args.lat0, args.dlat, args.nrows)
              /\ args.nrows >= 2
                    => (RRows[i] = args.nrows - 1
                          <=> /\ Min2(args.lat0, args.dlat) <= 2 * QLats[i]
                              /\ 2 * QLats[i] <= Min2(args.lat0, args.dlat) + 2 * args.dlat
                              /\ 2 * QLats[i]
                                    < Max2(args.lat0, args.dlat, args.nrows) - 2 * args.dlat)
              /\ RCols[i] = 0
                    <=> /\ Min2(args.lon0, args.dlon) <= 2 * QLons[i]
                        /\ 2 * QLons[i] <= Min2(args.lon0, args.dlon) + 2 * args.dlon
              /\ args.ncols >= 2
                    => (RCols[i] = args.ncols - 1
                          <=> /\ Max2(args.lon0, args.dlon, args.ncols) - 2 * args.dlon
                                    <= 2 * QLons[i]
                              /\ 2 * QLons[i] <= Max2(args.lon0, args.dlon, args.ncols)
                              /\ Min2(args.lon0, args.dlon) + 2 * args.dlon < 2 * QLons[i])

\* a latitude one tick below the band of row 0 and a longitude one tick
\* right of the band of column 0, both within half a cell of the band, are
\* in row 1 and column 1
C23_Witness ==
    /\ FIDone /\ args.lats.shape = <<>>
    /\ args.nrows = 3 /\ args.ncols = 3
    /\ 2 * args.lats.val = Max2(args.lat0, args.dlat, args.nrows) - 2 * args.dlat - 2
    /\ 2 * args.lons.val = Min2(args.lon0, args.dlon) + 2 * args.dlon + 2
    /\ ret.row_indices.val = 1 /\ ret.col_indices.val = 1

C24_NoDataExact ==
    SampleDone =>
        \A i \in 1..Len(args.x.val) :
           (\/ Outside(args.y.val[i], self.y0, self.dy, self.rows)
            \/ Outside(args.x.val[i], self.x0, self.dx, self.cols))
              => ret.val[i] = NoData

\* the centre of the cell (i, j) of the Raster r, from its own x0, y0, dx, dy
\* and rows (origin 'Lower': y0 is the centre of the last row)
CentreX(r, j) == r.x0 + j * r.dx
CentreY(r, i) == r.y0 + (r.rows - 1 - i) * r.dy

\* the value r.sample gives at the one point (x, y)
SampleOne(r, x, y) == sample(r, List(<<x>>), List(<<y>>)).val[1]

\* C26: the metadata of the result of subset agree with its buffer: for a
\* box inside the envelope and every cell (i, j) of the result, sampling the
\* result at the centre of the cell, computed from the x0, y0, dx, dy and
\* rows of the result, gives the value sampling the source at the same
\* (x, y) gives.
C26_SubsetSamplesAgree ==
    (SubsetDone /\ exc = "none" /\ BoxInside)
    => \A i \in 0..(ret.rows - 1), j \in 0..(ret.cols - 1) :
          /\ SampleOne(ret, CentreX(ret, j), CentreY(ret, i)) = ret.data[i][j]
          /\ SampleOne(ret, CentreX(ret, j), CentreY(ret, i))
                = SampleOne(self, CentreX(ret, j), CentreY(ret, i))

\* the row and column indices subset takes from find_indices and uses as the
\* bounds of its slice and in new_x0 and new_y0, 256-263
subsetIndices(r, min_x, min_y, max_x, max_y) ==
    LET Y == List(<<max_y, min_y>>)
        X == List(<<min_x, max_x>>)
        idx == find_indices(Y, X, r.y0, r.x0, r.dy, r.dx, r.rows, r.cols)
    IN  [min_row |-> idx.row_indices.val[1], max_row |-> idx.row_indices.val[2],
         min_col |-> idx.col_indices.val[1], max_col |-> idx.col_indices.val[2]]

\* C27: subset does not take the sentinel for an index: also when a corner
\* of the box lies outside the envelope, none of the four bounds of its slice
\* is -999, and the x0 and y0 of the result are the centre of a column and of
\* a row of the source, not a coordinate computed from -999.
C27_SentinelNotAnIndex ==
    (SubsetDone /\ exc = "none")
    => LET used == subsetIndices(self, args.min_x, args.min_y, args.max_x, args.max_y)
       IN  /\ NoData \notin {used.min_row, used.max_row, used.min_col, used.max_col}
           /\ ret.x0 # self.x0 + NoData * self.dx
           /\ ret.y0 # self.y0 + (self.rows - 1 - NoData) * self.dy
           /\ \E c \in 0..(self.cols - 1) : ret.x0 = CentreX(self, c)
           /\ \E i \in 0..(self.rows - 1) : ret.y0 = CentreY(self, i)

(***************************************************************************)
(* Further properties of categorical_cmap.                                 *)
(***************************************************************************)
\* C28: categorical_cmap leaves cdict as it was imported, whatever calls
\* were made, and the order of the colours returned depends on the call
\* alone: the order of the palette for reverse=False and the reversed order
\* for reverse=True.
C28_CdictUnchanged ==
    /\ \A key \in DOMAIN env.cdict : env.cdict[key] = Palette(key.name, key.cat)
    /\ (CmapDone /\ exc = "none")
          => ret.colors = IF args.reverse THEN Reverse(Palette(args.cmap_name, ret.N))
                          ELSE Palette(args.cmap_name, ret.N)

(***************************************************************************)
(* Further properties of CSAGStationReader.                                *)
(***************************************************************************)
\* the states of a reader that has read its file at most once: the
\* construction reads none of the data section and leaves the flag unset and
\* no data; the flag is set exactly when the section has been read, once; it
\* has been read when data() or dates() has run
ReadOnce ==
    /\ env.reads <= 1
    /\ pc = "start" => env.reads = 0
    /\ pc # "start"
          => /\ self._data_read <=> env.reads = 1
             /\ ~self._data_read => self._data = None
    /\ (pc = "ready" /\ fn = "CSAGStationReader")
          => ~self._data_read /\ env.reads = 0
    /\ (pc = "done" /\ fn \in {"data", "dates"})
          => self._data_read /\ env.reads = 1

\* the steps of a reader that reads its file at most once: the first call of
\* data() or dates() reads the data section and sets the flag, and no step
\* of a reader that has read it reads again or changes the records
NoSecondRead ==
    /\ (pc = "ready" /\ ~self._data_read /\ fn' \in {"data", "dates"})
          => env'.reads = 1 /\ self'._data_read
    /\ (pc # "start" /\ self._data_read)
          => /\ env'.reads = env.reads
             /\ self'._data = self._data
             /\ self'._data_read

\* C29: the data section of the file is read at most once: the construction
\* reads only the header and leaves the data unread, the first call of
\* data() or dates() reads the data and sets the flag, and every later call
\* of data() or dates(), in any order, reads nothing and returns from the
\* records already read.
C29_ReadAtMostOnce == []ReadOnce /\ [][NoSecondRead]_vars

\* data() or dates() has returned from a reader of a file of two records,
\* which has been read once
C29_Witness ==
    /\ pc = "done" /\ fn \in {"data", "dates"}
    /\ exc = "none"
    /\ self._data_read /\ env.reads = 1
    /\ self._data.VAR.shape = <<2>>

\* the VAR of the records of the file, as numbers in thousandths
FileVAR == [i \in 1..Len(env.file.records) |-> NumberRead[env.file.records[i].VAR]]

\* the values data() returned, one or many
DataValues == IF ret.shape = <<>> THEN <<ret.val>> ELSE ret.val

\* C30: data() returns NaN for every record whose VAR in the file is negative
\* and the VAR of the file for every record whose VAR is zero or positive; no
\* value returned is a negative number.
C30_NoDataMasked ==
    (pc = "done" /\ fn = "data")
    => /\ exc = "none"
       /\ Len(DataValues) = Len(FileVAR)
       /\ \A i \in 1..Len(FileVAR) :
             /\ FileVAR[i] < 0 => DataValues[i] = NaN
             /\ FileVAR[i] >= 0 => DataValues[i] = Float(FileVAR[i])
             /\ DataValues[i] # NaN => DataValues[i].milli >= 0

\* a file of a no-data record and a record of 4.4: NaN and 4.4 are returned
C30_Witness ==
    /\ pc = "done" /\ fn = "data"
    /\ Len(env.file.records) = 2
    /\ FileVAR = <<-999000, 4400>>
    /\ ret.shape = <<2>>
    /\ ret.val = <<NaN, Float(4400)>>
====
